---------------------------- MODULE Spec2Model ----------------------------
(***************************************************************************)
(* The animation engine of the Visualizer component (components/Visualizer *)
(* in src/unnamed/part_000, lines 206-427) driven by the App component     *)
(* (src/unnamed/part_001).                                                 *)
(*                                                                         *)
(* Number representation (the source computes in IEEE doubles; the model   *)
(* computes in integers of a fixed unit, rounding toward zero):            *)
(*   time, timestamps, durations     milliseconds                          *)
(*   speed, endSizePct, rotationSpeed  hundredths  (50 is 0.5)             *)
(*   separation, phaseInterval       as in the source                      *)
(*   scale                           1/10000                               *)
(*   offsetX                         1/100                                 *)
(*   smoothedDirection               1/10000  (targetDirection is 1 or -1) *)
(*   currentRotation, rotation       1/10000 degree                        *)
(*   Math.cos                        Bhaskara's rational approximation, in *)
(*                                   thousandths, exact at 0, 1/4, 1/2 turn*)
(***************************************************************************)
EXTENDS Integers, FiniteSets, Sequences, TLC

VARIABLES
    now,                        \* performance.now() / the frame timestamp
    isPlaying,                  \* App state, part_001:6
    params,                     \* App state, part_001:7-11 (the Visualizer's props)
    requestRef,                 \* part_000:225
    pendingFrames,              \* ids of the callbacks the host has scheduled
    startTimeRef,               \* part_000:228
    pausedTimeRef,              \* part_000:229
    lastFrameTimeRef,           \* part_000:230
    currentRotationRef,         \* part_000:233
    targetDirectionRef,         \* part_000:234
    smoothedDirectionRef,       \* part_000:235
    nextDirectionChangeTimeRef, \* part_000:236
    frame,                      \* React state scale, rotation, offsetX, phaseMode (262-265)
    isUiVisible,                \* App state, part_001:13
    uiTimeoutRef,               \* part_001:14
    pendingTimeouts,            \* the timers the host has armed: [id, due]
    hist                        \* history of the last handler: which one ran and its locals

vars == << now, isPlaying, params, requestRef, pendingFrames, startTimeRef,
           pausedTimeRef, lastFrameTimeRef, currentRotationRef,
           targetDirectionRef, smoothedDirectionRef,
           nextDirectionChangeTimeRef, frame, isUiVisible, uiTimeoutRef,
           pendingTimeouts, hist >>

-----------------------------------------------------------------------------
(* Bounds of the model *)

\* the clock stops advancing here (ms)
MaxNow == 6100

\* wall-clock time between a frame request and its callback
TickDelays == {2000, 4000}

\* wall-clock time between the previous handler and a user event
EventDelays == {0, 2000}

\* values the sliders are moved between (App's defaults first)
SpeedValues == {50, 100}
EndSizePctValues == {40, 100}
SeparationValues == {1000, 150}
RotationSpeedValues == {50, 0}
PhaseIntervalValues == {3, 1}

\* Math.random() * 4000, floored to whole ms
RandomDelays == {0, 3999}

\* performance.now() when the component mounts
MountTimes == {100}

\* at most this many user events follow a handler within the same millisecond
MaxBurst == 1

\* at most this many sliders stand away from App's defaults at a time
MaxMoved == 1

-----------------------------------------------------------------------------
(* Program constants *)

R_OUT == 100

\* startTimeRef.current === null
NULL == -1

-----------------------------------------------------------------------------
(* Arithmetic of the source language *)

\* a / b rounded toward zero (b > 0)
TruncDiv(a, b) == IF a >= 0 THEN a \div b ELSE -((-a) \div b)

\* Math.floor(a / b) (b > 0)
MathFloor(a, b) == a \div b

\* a % b of JavaScript: the remainder has the sign of the dividend
JsRem(a, b) == a - b * TruncDiv(a, b)

Abs(x) == IF x < 0 THEN -x ELSE x

\* Math.cos(t * Math.PI * 2) in thousandths, for t = tq / 1000 of a turn in [0, 1)
MathCosTurn(tq) ==
    LET B(u) == ((1000000 - 16 * u * u) * 1000) \div (1000000 + 4 * u * u)
    IN  IF tq <= 250 THEN B(tq)
        ELSE IF tq < 750 THEN -B(tq - 500)
        ELSE B(tq - 1000)

-----------------------------------------------------------------------------
(* Scale calculations, part_000:255-259 *)

maxScale(p) == (p.separation * 10000) \div (2 * R_OUT)

minScale(p) == (maxScale(p) * p.endSizePct) \div 100

baseOffsetNoGap(p) == (p.separation * 100) \div 2

baseOffset(p) == (p.separation * 100) \div 2 + 50

-----------------------------------------------------------------------------
(* The frame formula of animate, part_000:280-312 *)

\* elapsedTotal / cycleDuration as the pair (whole cycles, thousandths of the
\* current cycle), with cycleDuration = 4000 / speed
CycleCountOf(elapsedTotal, speed) == MathFloor(elapsedTotal * speed, 4000 * 100)

CyclePositionOf(elapsedTotal, speed) ==
    TruncDiv(JsRem(elapsedTotal * speed, 4000 * 100) * 1000, 4000 * 100)

AnimatePhaseWrongGroup(elapsedTotal, p) ==
    JsRem(JsRem(CycleCountOf(elapsedTotal, p.speed), p.phaseInterval), 2) # 0

\* isGlobalPhase, part_000:285-295
AnimateIsGlobalPhase(elapsedTotal, p) ==
    LET cycleCount == CycleCountOf(elapsedTotal, p.speed)
        phaseGroup == MathFloor(cycleCount, p.phaseInterval)
    IN  JsRem(phaseGroup, 2) # 0

AnimateScaleSine(elapsedTotal, p) ==
    LET t     == CyclePositionOf(elapsedTotal, p.speed)
        phase == MathCosTurn(JsRem(t + 750, 1000)) + 1000
    IN  minScale(p) + TruncDiv((maxScale(p) - minScale(p)) * phase, 2000)

\* currentScale, part_000:298-301; phase is kept in 1/2000
AnimateScale(elapsedTotal, p) ==
    LET t     == CyclePositionOf(elapsedTotal, p.speed)
        phase == MathCosTurn(t) + 1000
    IN  minScale(p) + TruncDiv((maxScale(p) - minScale(p)) * phase, 2000)

AnimateOffsetSwapped(elapsedTotal, p) ==
    IF AnimateIsGlobalPhase(elapsedTotal, p)
    THEN baseOffset(p)
    ELSE LET ratio == TruncDiv(AnimateScale(elapsedTotal, p) * 10000, maxScale(p))
         IN  TruncDiv(baseOffset(p) * ratio, 10000)

\* currentOffset, part_000:303-312
AnimateOffset(elapsedTotal, p) ==
    IF AnimateIsGlobalPhase(elapsedTotal, p)
    THEN LET ratio == TruncDiv(AnimateScale(elapsedTotal, p) * 10000, maxScale(p))
         IN  TruncDiv(baseOffset(p) * ratio, 10000)
    ELSE baseOffset(p)

\* currentMode, part_000:296
AnimateMode(elapsedTotal, p) ==
    IF AnimateIsGlobalPhase(elapsedTotal, p) THEN "global" ELSE "parallel"

-----------------------------------------------------------------------------
(* The static frame of the pause branch, part_000:366-384 *)

StaticIsGlobalPhase(pausedTime, p) ==
    LET cycleCount == MathFloor(pausedTime * p.speed, 4000 * 100)
        phaseGroup == MathFloor(cycleCount, p.phaseInterval)
    IN  JsRem(phaseGroup, 2) # 0

StaticScaleHalfCycle(pausedTime, p) ==
    LET t     == TruncDiv(JsRem(pausedTime * p.speed, 4000 * 100) * 1000, 4000 * 100)
        phase == MathCosTurn(t \div 2) + 1000
    IN  minScale(p) + TruncDiv((maxScale(p) - minScale(p)) * phase, 2000)

StaticScale(pausedTime, p) ==
    LET t     == TruncDiv(JsRem(pausedTime * p.speed, 4000 * 100) * 1000, 4000 * 100)
        phase == MathCosTurn(t) + 1000
    IN  minScale(p) + TruncDiv((maxScale(p) - minScale(p)) * phase, 2000)

StaticOffset(pausedTime, p) ==
    IF StaticIsGlobalPhase(pausedTime, p)
    THEN LET ratio == TruncDiv(StaticScale(pausedTime, p) * 10000, maxScale(p))
         IN  TruncDiv(baseOffset(p) * ratio, 10000)
    ELSE baseOffset(p)

StaticMode(pausedTime, p) ==
    IF StaticIsGlobalPhase(pausedTime, p) THEN "global" ELSE "parallel"

-----------------------------------------------------------------------------
(* The host's frame scheduler *)

\* requestAnimationFrame: a new id, different from every pending id and from the
\* id the component still holds
RequestAnimationFrame(pending, held) ==
    CHOOSE i \in 1..(Cardinality(pending) + 2) :
        /\ i \notin pending
        /\ i # held
        /\ \A j \in 1..(i - 1) : j \in pending \/ j = held

CancelNothing(pending, ref) == pending

\* if (requestRef.current) cancelAnimationFrame(requestRef.current), part_000:357-359, 388-390
CancelAnimationFrame(pending, ref) ==
    IF ref # 0 THEN pending \ {ref} ELSE pending

-----------------------------------------------------------------------------
(* The component's mutable state as one record *)

Refs ==
    [ requestRef                 |-> requestRef,
      pendingFrames              |-> pendingFrames,
      startTimeRef               |-> startTimeRef,
      pausedTimeRef              |-> pausedTimeRef,
      lastFrameTimeRef           |-> lastFrameTimeRef,
      currentRotationRef         |-> currentRotationRef,
      targetDirectionRef         |-> targetDirectionRef,
      smoothedDirectionRef       |-> smoothedDirectionRef,
      nextDirectionChangeTimeRef |-> nextDirectionChangeTimeRef,
      frame                      |-> frame ]

Becomes(s) ==
    /\ requestRef' = s.requestRef
    /\ pendingFrames' = s.pendingFrames
    /\ startTimeRef' = s.startTimeRef
    /\ pausedTimeRef' = s.pausedTimeRef
    /\ lastFrameTimeRef' = s.lastFrameTimeRef
    /\ currentRotationRef' = s.currentRotationRef
    /\ targetDirectionRef' = s.targetDirectionRef
    /\ smoothedDirectionRef' = s.smoothedDirectionRef
    /\ nextDirectionChangeTimeRef' = s.nextDirectionChangeTimeRef
    /\ frame' = s.frame

\* elapsedActiveTime at wall-clock time t: time - startTimeRef while the clock
\* runs (part_000:281), pausedTimeRef while it is frozen (part_000:362, 368)
ElapsedActiveTime(s, t) ==
    IF s.startTimeRef # NULL THEN t - s.startTimeRef ELSE s.pausedTimeRef

-----------------------------------------------------------------------------
(* animate, part_000:267-337 *)

\* dt, part_000:273-277
AnimateDt(s, time) ==
    time - (IF s.lastFrameTimeRef = 0 THEN time ELSE s.lastFrameTimeRef)

\* elapsedTotal, part_000:269-271, 281
AnimateElapsedTotal(s, time) ==
    time - (IF s.startTimeRef = NULL THEN time ELSE s.startTimeRef)

\* the direction re-roll fires, part_000:315-316
AnimateRerolls(s, time, rotationSpeed) ==
    rotationSpeed > 0 /\ time > s.nextDirectionChangeTimeRef

LerpSnap(smoothed, target) == target * 10000

LerpOvershoot(smoothed, target) ==
    smoothed + TruncDiv((target * 10000 - smoothed) * 102, 100)

\* smoothedDirectionRef.current += (target - smoothed) * lerpFactor, part_000:321-322
Lerp(smoothed, target) ==
    smoothed + TruncDiv((target * 10000 - smoothed) * 2, 100)

\* deltaRotation, part_000:324-325
DeltaRotation(rotationSpeed, smoothed, dt) ==
    LET baseSpeedMs == rotationSpeed * 9
    IN  TruncDiv(TruncDiv(baseSpeedMs * smoothed, 100) * dt, 100)

NextDirectionChangeAnyTime(time, rnd) == time + rnd.delay

\* nextDirectionChangeTimeRef.current = time + 2000 + Math.random() * 4000,
\* part_000:318
NextDirectionChange(time, rnd) == time + 2000 + rnd.delay

\* the rotation logic, part_000:314-328; rnd holds the two Math.random() draws
AnimateRotationBody(s, time, dt, rotationSpeed, rnd) ==
    IF rotationSpeed > 0
    THEN LET reroll   == time > s.nextDirectionChangeTimeRef
             target   == IF reroll THEN rnd.dir ELSE s.targetDirectionRef
             next     == IF reroll THEN NextDirectionChange(time, rnd)
                         ELSE s.nextDirectionChangeTimeRef
             smoothed == Lerp(s.smoothedDirectionRef, target)
             delta    == DeltaRotation(rotationSpeed, smoothed, dt)
         IN  [s EXCEPT !.targetDirectionRef = target,
                       !.nextDirectionChangeTimeRef = next,
                       !.smoothedDirectionRef = smoothed,
                       !.currentRotationRef = JsRem(@ + delta, 360 * 10000)]
    ELSE s

AnimateRotationUngated(s, time, dt, rotationSpeed, rnd) ==
    LET r == AnimateRotationBody(s, time, dt, 100, rnd)
    IN  IF rotationSpeed > 0 THEN AnimateRotationBody(s, time, dt, rotationSpeed, rnd)
        ELSE [s EXCEPT !.smoothedDirectionRef = r.smoothedDirectionRef,
                       !.currentRotationRef = r.currentRotationRef]

AnimateRotationNoWrap(s, time, dt, rotationSpeed, rnd) ==
    LET r == AnimateRotationBody(s, time, dt, rotationSpeed, rnd)
    IN  IF rotationSpeed > 0
        THEN [r EXCEPT !.currentRotationRef =
                  s.currentRotationRef
                      + DeltaRotation(rotationSpeed, r.smoothedDirectionRef, dt)]
        ELSE r

AnimateRotation(s, time, dt, rotationSpeed, rnd) ==
    AnimateRotationBody(s, time, dt, rotationSpeed, rnd)

\* the whole callback: s is the state with the fired callback already removed
\* from the host's queue, p the props of the render that created the callback
AnimateBody(s, time, p, rnd) ==
    LET dt           == AnimateDt(s, time)
        elapsedTotal == AnimateElapsedTotal(s, time)
        r            == AnimateRotation(s, time, dt, p.rotationSpeed, rnd)
        id           == RequestAnimationFrame(s.pendingFrames, s.requestRef)
    IN  [r EXCEPT !.startTimeRef = IF @ = NULL THEN time ELSE @,
                  !.lastFrameTimeRef = time,
                  !.frame = [scale     |-> AnimateScale(elapsedTotal, p),
                             offsetX   |-> AnimateOffset(elapsedTotal, p),
                             rotation  |-> r.currentRotationRef,
                             phaseMode |-> AnimateMode(elapsedTotal, p)],
                  !.requestRef = id,
                  !.pendingFrames = @ \cup {id}]

Animate(s, time, p, rnd) == AnimateBody(s, time, p, rnd)

-----------------------------------------------------------------------------
(* The start/stop effect, part_000:339-393 *)

EffectCleanupNothing(s) == s

\* the cleanup of the previous run of the effect, part_000:387-391
EffectCleanup(s) ==
    [s EXCEPT !.pendingFrames = CancelAnimationFrame(@, s.requestRef)]

ResumeStartTimeFresh(s, t) == t

\* startTimeRef.current = now - pausedTimeRef.current (both branches), part_000:343-347
ResumeStartTime(s, t) == t - s.pausedTimeRef

KeepLastFrameTime(s, t) == s.lastFrameTimeRef

\* lastFrameTimeRef.current = now, part_000:349
SeedLastFrameTime(s, t) == t

\* the play branch re-seeds the time of the next re-roll, part_000:351
EffectReseeds(s, t, playing) == playing /\ s.nextDirectionChangeTimeRef < t

\* the isPlaying branch, part_000:340-355
EffectPlay(s, t) ==
    LET id == RequestAnimationFrame(s.pendingFrames, s.requestRef)
    IN  [s EXCEPT !.startTimeRef = ResumeStartTime(s, t),
                  !.lastFrameTimeRef = SeedLastFrameTime(s, t),
                  !.nextDirectionChangeTimeRef = IF @ < t THEN t + 1000 ELSE @,
                  !.requestRef = id,
                  !.pendingFrames = @ \cup {id}]

EffectPauseUnguarded(s, t, p) ==
    LET paused == t - (IF s.startTimeRef # NULL THEN s.startTimeRef ELSE 0)
    IN  [s EXCEPT !.pendingFrames = CancelAnimationFrame(@, s.requestRef),
                  !.pausedTimeRef = paused,
                  !.startTimeRef = NULL,
                  !.frame = [scale     |-> StaticScale(paused, p),
                             offsetX   |-> StaticOffset(paused, p),
                             rotation  |-> s.frame.rotation,
                             phaseMode |-> StaticMode(paused, p)]]

\* the else branch, part_000:356-385
EffectPause(s, t, p) ==
    LET paused == IF s.startTimeRef # NULL THEN t - s.startTimeRef
                  ELSE s.pausedTimeRef
    IN  [s EXCEPT !.pendingFrames = CancelAnimationFrame(@, s.requestRef),
                  !.pausedTimeRef = paused,
                  !.startTimeRef = NULL,
                  !.frame = [scale     |-> StaticScale(paused, p),
                             offsetX   |-> StaticOffset(paused, p),
                             rotation  |-> s.frame.rotation,
                             phaseMode |-> StaticMode(paused, p)]]

\* one run of the effect after a change of its dependencies: the cleanup of the
\* previous run, then the body with the new props
EffectBody(s, t, playing, p) ==
    IF playing THEN EffectPlay(EffectCleanup(s), t)
    ELSE EffectPause(EffectCleanup(s), t, p)

EffectResettingRotation(s, t, playing, p) ==
    [EffectBody(s, t, playing, p) EXCEPT !.currentRotationRef = 0,
                                         !.smoothedDirectionRef = 0]

Effect(s, t, playing, p) == EffectBody(s, t, playing, p)

-----------------------------------------------------------------------------
(* App's UI visibility effect, part_001:53-88 *)

UiRefs ==
    [ isUiVisible     |-> isUiVisible,
      uiTimeoutRef    |-> uiTimeoutRef,
      pendingTimeouts |-> pendingTimeouts ]

UiBecomes(u) ==
    /\ isUiVisible' = u.isUiVisible
    /\ uiTimeoutRef' = u.uiTimeoutRef
    /\ pendingTimeouts' = u.pendingTimeouts

\* window.setTimeout: a new id, different from every armed id and from the id
\* the component still holds
SetTimeoutId(pending, held) ==
    CHOOSE i \in 1..(Cardinality(pending) + 2) :
        /\ i # held
        /\ \A x \in pending : x.id # i
        /\ \A j \in 1..(i - 1) : j = held \/ \E x \in pending : x.id = j

ClearNoTimeout(pending, ref) == pending

\* if (uiTimeoutRef.current) window.clearTimeout(uiTimeoutRef.current),
\* part_001:58-60, 71, 83
ClearTimeout(pending, ref) ==
    IF ref # 0 THEN {x \in pending : x.id # ref} ELSE pending

\* showUi of the render with isPlaying = playing, called at time t, part_001:54-68
ShowUi(u, t, playing) ==
    LET cleared == ClearTimeout(u.pendingTimeouts, u.uiTimeoutRef)
        id      == SetTimeoutId(cleared, u.uiTimeoutRef)
    IN  IF playing
        THEN [ isUiVisible     |-> TRUE,
               uiTimeoutRef    |-> id,
               pendingTimeouts |-> cleared \cup {[id |-> id, due |-> t + 2000]} ]
        ELSE [u EXCEPT !.isUiVisible = TRUE, !.pendingTimeouts = cleared]

\* the cleanup the previous run of the effect returned: only the run with
\* isPlaying true returns one, part_001:81-84
UiEffectCleanup(u, wasPlaying) ==
    IF wasPlaying
    THEN [u EXCEPT !.pendingTimeouts = ClearTimeout(@, u.uiTimeoutRef)]
    ELSE u

\* one run of the effect after isPlaying changed from wasPlaying to playing
UiEffect(u, t, wasPlaying, playing) ==
    LET c == UiEffectCleanup(u, wasPlaying)
    IN  IF ~playing
        THEN [c EXCEPT !.pendingTimeouts = ClearTimeout(@, c.uiTimeoutRef),
                       !.isUiVisible = TRUE]
        ELSE ShowUi(c, t, TRUE)

\* the callback of the hide timer, part_001:64-66
HideTimerFires(u, x) ==
    [u EXCEPT !.isUiVisible = FALSE, !.pendingTimeouts = @ \ {x}]

\* the refs and the state of App as its first render creates them, part_001:13-14
UiConstructed ==
    [ isUiVisible |-> TRUE, uiTimeoutRef |-> 0, pendingTimeouts |-> {} ]

-----------------------------------------------------------------------------
(* The click handlers a click on the play/pause button reaches *)

\* onTogglePlay of the last render: setIsPlaying(!isPlaying) queues the value,
\* part_001:114
OnTogglePlay(rendered, queued) == ~rendered

\* handleBackgroundClick: setIsPlaying(prev => !prev) queues an updater that
\* React applies to the queued state, part_001:90-92
HandleBackgroundClick(rendered, queued) == ~queued

\* the button's onClick (part_000:75), then the onClick of App's root element
\* (part_001:97) the click bubbles to: the state React commits
ButtonClickCommits(rendered) ==
    HandleBackgroundClick(rendered, OnTogglePlay(rendered, rendered))

-----------------------------------------------------------------------------
(* The state machine *)

\* App's initial state, part_001:7-11
AppDefaults ==
    [ speed |-> 50, separation |-> 1000, endSizePct |-> 40,
      rotationSpeed |-> 50, phaseInterval |-> 3 ]

ParamValues ==
    [ speed |-> SpeedValues, separation |-> SeparationValues,
      endSizePct |-> EndSizePctValues, rotationSpeed |-> RotationSpeedValues,
      phaseInterval |-> PhaseIntervalValues ]

\* the number of sliders of p that stand away from App's defaults
Moved(p) == Cardinality({f \in DOMAIN AppDefaults : p[f] # AppDefaults[f]})

\* the refs and the React state as the component's first render creates them,
\* part_000:225-236, 262-265
Constructed(p) ==
    [ requestRef                 |-> 0,
      pendingFrames              |-> {},
      startTimeRef               |-> NULL,
      pausedTimeRef              |-> 0,
      lastFrameTimeRef           |-> 0,
      currentRotationRef         |-> 0,
      targetDirectionRef         |-> 1,
      smoothedDirectionRef       |-> 0,
      nextDirectionChangeTimeRef |-> 0,
      frame |-> [ scale |-> maxScale(p), offsetX |-> baseOffset(p),
                  rotation |-> 0, phaseMode |-> "parallel" ] ]

\* the two Math.random() draws of one frame, part_000:317-318
RandomDraws == [dir : {1, -1}, delay : RandomDelays]

\* The state after the mount: isPlaying is false, so the first run of the effect
\* takes the pause branch
Init ==
    /\ now \in MountTimes
    /\ isPlaying = FALSE
    /\ params = AppDefaults
    /\ LET s == Effect(Constructed(AppDefaults), now, FALSE, AppDefaults)
       IN  /\ requestRef = s.requestRef
           /\ pendingFrames = s.pendingFrames
           /\ startTimeRef = s.startTimeRef
           /\ pausedTimeRef = s.pausedTimeRef
           /\ lastFrameTimeRef = s.lastFrameTimeRef
           /\ currentRotationRef = s.currentRotationRef
           /\ targetDirectionRef = s.targetDirectionRef
           /\ smoothedDirectionRef = s.smoothedDirectionRef
           /\ nextDirectionChangeTimeRef = s.nextDirectionChangeTimeRef
           /\ frame = s.frame
    /\ LET u == UiEffect(UiConstructed, now, FALSE, FALSE)
       IN  /\ isUiVisible = u.isUiVisible
           /\ uiTimeoutRef = u.uiTimeoutRef
           /\ pendingTimeouts = u.pendingTimeouts
    /\ hist = [ event |-> "stop", cause |-> "mount", elapsed |-> 0,
                dt |-> 0, rerolled |-> FALSE,
                active |-> 0, fixed |-> TRUE, burst |-> 0,
                rerollAt |-> NULL, seededAt |-> NULL, rerolls |-> 0 ]

\* wall-clock time that passes with the clock running when the next handler
\* runs d ms after this state
ActiveFor(d) == IF startTimeRef # NULL THEN d ELSE 0

\* The host runs the scheduled callback id, d ms after the previous handler
Tick(id, d, rnd) ==
    /\ id \in pendingFrames
    /\ LET time == now + d
           s0   == [Refs EXCEPT !.pendingFrames = @ \ {id}]
       IN  /\ now' = time
           /\ Becomes(Animate(s0, time, params, rnd))
           /\ hist' = [hist EXCEPT !.event = "tick",
                                   !.cause = "frame",
                                   !.elapsed = AnimateElapsedTotal(s0, time),
                                   !.dt = AnimateDt(s0, time),
                                   !.rerolled = AnimateRerolls(s0, time, params.rotationSpeed),
                                   !.active = @ + ActiveFor(d),
                                   !.burst = 0,
                                   !.rerollAt =
                                       IF AnimateRerolls(s0, time, params.rotationSpeed)
                                       THEN time ELSE @,
                                   !.rerolls =
                                       IF AnimateRerolls(s0, time, params.rotationSpeed)
                                       THEN @ + 1 ELSE @]
    /\ UNCHANGED << isPlaying, params, isUiVisible, uiTimeoutRef, pendingTimeouts >>

\* hist after a run of the effect, d ms after this state, that leaves the state s
HistAfterEffect(s, cause, d) ==
    [hist EXCEPT !.event = IF s.startTimeRef # NULL THEN "start" ELSE "stop",
                 !.cause = cause,
                 !.elapsed = IF s.startTimeRef # NULL THEN @ ELSE s.pausedTimeRef,
                 !.dt = 0,
                 !.rerolled = FALSE,
                 !.active = @ + ActiveFor(d),
                 !.fixed = @ /\ cause # "param",
                 !.seededAt = IF EffectReseeds(Refs, now + d, s.startTimeRef # NULL)
                              THEN now + d ELSE @,
                 !.burst = IF d = 0 THEN @ + 1 ELSE 0]

\* A click on the background: setIsPlaying(prev => !prev), part_001:90-92, 97,
\* and the two effects the new isPlaying triggers
TogglePlay(d) ==
    /\ now' = now + d
    /\ isPlaying' = ~isPlaying
    /\ UNCHANGED params
    /\ UiBecomes(UiEffect(UiRefs, now', isPlaying, isPlaying'))
    /\ LET s == Effect(Refs, now', isPlaying', params)
       IN  /\ Becomes(s)
           /\ hist' = HistAfterEffect(s, "toggle", d)

\* The Space key: setIsPlaying(prev => !prev); setIsUiVisible(true), part_001:39-51,
\* and the two effects the new isPlaying triggers
PressSpace(d) ==
    /\ now' = now + d
    /\ isPlaying' = ~isPlaying
    /\ UNCHANGED params
    /\ UiBecomes(UiEffect([UiRefs EXCEPT !.isUiVisible = TRUE], now', isPlaying, isPlaying'))
    /\ LET s == Effect(Refs, now', isPlaying', params)
       IN  /\ Becomes(s)
           /\ hist' = HistAfterEffect(s, "key", d)

\* hist after a handler that runs no effect of the Visualizer
HistAfterUi(event, cause, d) ==
    [hist EXCEPT !.event = event,
                 !.cause = cause,
                 !.active = @ + ActiveFor(d),
                 !.burst = IF d = 0 THEN @ + 1 ELSE 0]

\* A click on the play/pause button of Controls, part_000:72-85: the controls
\* take clicks only while they are shown (part_000:44). The effects run only if
\* the committed isPlaying differs from the rendered one.
ClickPlayButton(d) ==
    /\ isUiVisible
    /\ now' = now + d
    /\ isPlaying' = ButtonClickCommits(isPlaying)
    /\ UNCHANGED params
    /\ IF isPlaying' # isPlaying
       THEN /\ UiBecomes(UiEffect(UiRefs, now', isPlaying, isPlaying'))
            /\ LET s == Effect(Refs, now', isPlaying', params)
               IN  /\ Becomes(s)
                   /\ hist' = [HistAfterEffect(s, "button", d) EXCEPT !.event = "click"]
       ELSE /\ UiBecomes(UiRefs)
            /\ Becomes(Refs)
            /\ hist' = HistAfterUi("click", "button", d)

\* A mousemove while the listener is attached, that is, while the last run of
\* the UI effect was one with isPlaying true: showUi, part_001:75
MouseMove(d) ==
    /\ isPlaying
    /\ now' = now + d
    /\ UiBecomes(ShowUi(UiRefs, now', TRUE))
    /\ Becomes(Refs)
    /\ hist' = HistAfterUi("mousemove", "mouse", d)
    /\ UNCHANGED << isPlaying, params >>

\* The host runs the hide timer x, at its due time or later
HideUi(x) ==
    /\ x \in pendingTimeouts
    /\ now' = IF now < x.due THEN x.due ELSE now
    /\ UiBecomes(HideTimerFires(UiRefs, x))
    /\ Becomes(Refs)
    /\ hist' = HistAfterUi("hide", "timer", now' - now)
    /\ UNCHANGED << isPlaying, params >>

\* setSpeed, setEndSizePct, setSeparation, setRotationSpeed, setPhaseInterval,
\* part_001:116-124, and the effect the changed dependency triggers
SetParam(f, v, d) ==
    /\ v # params[f]
    /\ now' = now + d
    /\ params' = [params EXCEPT ![f] = v]
    /\ UNCHANGED << isPlaying, isUiVisible, uiTimeoutRef, pendingTimeouts >>
    /\ LET s == Effect(Refs, now', isPlaying, params')
       IN  /\ Becomes(s)
           /\ hist' = HistAfterEffect(s, "param", d)

\* a frame callback may run d ms after the previous handler
FrameAfter(d) == now + d <= MaxNow

\* a user event may come d ms after the previous handler
EventAfter(d) ==
    /\ now + d <= MaxNow
    /\ d = 0 => hist.burst < MaxBurst

\* The engine under the events that reach it: frames, the play toggle and the
\* sliders. The events that touch only App's UI state are taken up in NextUi.
Next ==
    \/ \E id \in pendingFrames, d \in TickDelays, rnd \in RandomDraws :
          FrameAfter(d) /\ Tick(id, d, rnd)
    \/ \E d \in EventDelays : EventAfter(d) /\ TogglePlay(d)
    \/ \E f \in DOMAIN ParamValues, d \in EventDelays :
          \E v \in ParamValues[f] :
              /\ EventAfter(d)
              /\ Moved([params EXCEPT ![f] = v]) <= MaxMoved
              /\ SetParam(f, v, d)

Spec == Init /\ [][Next]_vars

-----------------------------------------------------------------------------
(* The App with its controls: clicks, the Space key, mouse moves and the hide   *)
(* timer, with the frames running and the sliders left alone.                   *)

NextUi ==
    \/ \E id \in pendingFrames, d \in TickDelays, rnd \in RandomDraws :
          FrameAfter(d) /\ Tick(id, d, rnd)
    \/ \E d \in EventDelays : EventAfter(d) /\ TogglePlay(d)
    \/ \E d \in EventDelays : EventAfter(d) /\ PressSpace(d)
    \/ \E d \in EventDelays : EventAfter(d) /\ ClickPlayButton(d)
    \/ \E d \in EventDelays : EventAfter(d) /\ MouseMove(d)
    \/ \E x \in pendingTimeouts : FrameAfter(x.due - now) /\ HideUi(x)

SpecUi == Init /\ [][NextUi]_vars

-----------------------------------------------------------------------------
(* The engine on a finer time grid, for the timing of the direction re-rolls:   *)
(* frames 1000 ms apart as well, and of the sliders only the rotation speed,     *)
(* the one the rotation logic reads.                                            *)

RollTickDelays == {1000, 2000}

RollEventDelays == {0, 2000}

NextRoll ==
    \/ \E id \in pendingFrames, d \in RollTickDelays, rnd \in RandomDraws :
          FrameAfter(d) /\ Tick(id, d, rnd)
    \/ \E d \in RollEventDelays : EventAfter(d) /\ TogglePlay(d)
    \/ \E d \in RollEventDelays, v \in RotationSpeedValues :
          EventAfter(d) /\ SetParam("rotationSpeed", v, d)

SpecRoll == Init /\ [][NextRoll]_vars

-----------------------------------------------------------------------------
(* The frame formulas over a wider range of elapsed times and parameters: the   *)
(* engine has run for E ms and was paused; it is resumed, draws one frame within *)
(* the same millisecond and is paused again.                                     *)

ElapsedSamples ==
    {0, 1, 1999, 2000, 2667, 4000, 6000, 7999, 8000, 16000, 23999, 24000, 24001, 48000}

FrameParams ==
    [ speed : {10, 50, 100, 150}, separation : {150, 560, 1000},
      endSizePct : {10, 40, 100}, rotationSpeed : {0}, phaseInterval : {1, 2, 3, 8} ]

InitFrame ==
    /\ isPlaying = FALSE
    /\ params \in FrameParams
    /\ \E t \in MountTimes, E \in ElapsedSamples :
          LET s == Effect(Effect(Constructed(params), t, TRUE, params),
                          t + E, FALSE, params)
          IN  /\ now = t + E
              /\ requestRef = s.requestRef
              /\ pendingFrames = s.pendingFrames
              /\ startTimeRef = s.startTimeRef
              /\ pausedTimeRef = s.pausedTimeRef
              /\ lastFrameTimeRef = s.lastFrameTimeRef
              /\ currentRotationRef = s.currentRotationRef
              /\ targetDirectionRef = s.targetDirectionRef
              /\ smoothedDirectionRef = s.smoothedDirectionRef
              /\ nextDirectionChangeTimeRef = s.nextDirectionChangeTimeRef
              /\ frame = s.frame
              /\ LET u == UiEffect(UiEffect(UiConstructed, t, FALSE, TRUE), t + E, TRUE, FALSE)
                 IN  /\ isUiVisible = u.isUiVisible
                     /\ uiTimeoutRef = u.uiTimeoutRef
                     /\ pendingTimeouts = u.pendingTimeouts
              /\ hist = [ event |-> "stop", cause |-> "toggle", elapsed |-> E,
                          dt |-> 0, rerolled |-> FALSE,
                          active |-> E, fixed |-> TRUE, burst |-> 0,
                          rerollAt |-> NULL, seededAt |-> t, rerolls |-> 0 ]

NextFrame ==
    \/ hist.event # "start" /\ TogglePlay(0)
    \/ \E id \in pendingFrames, rnd \in RandomDraws :
          hist.event = "start" /\ Tick(id, 0, rnd)

SpecFrame == InitFrame /\ [][NextFrame]_vars

-----------------------------------------------------------------------------
(* The rotation logic over the whole range of its state: earlier playback has  *)
(* brought the angle and the smoothed direction anywhere in their ranges, and   *)
(* the engine has just been started again. The rotation logic reads the clock   *)
(* only through time differences, so the timestamps are those of a first start. *)

AngleSamples == {-3599999, -1800000, -10000, 0, 10000, 1800000, 3599999}

SmoothedSamples == {-10000, -9951, 0, 9951, 10000}

RotationSpeedSamples == {0, 50, 250}

RotationEventDelays == {2000}

InitRotation ==
    /\ now \in MountTimes
    /\ isPlaying = TRUE
    /\ params \in {[AppDefaults EXCEPT !.rotationSpeed = v] : v \in RotationSpeedSamples}
    /\ \E angle \in AngleSamples, smoothed \in SmoothedSamples, target \in {1, -1} :
          LET s == Effect([Constructed(params) EXCEPT
                               !.currentRotationRef = angle,
                               !.smoothedDirectionRef = smoothed,
                               !.targetDirectionRef = target,
                               !.frame.rotation = angle],
                          now, TRUE, params)
          IN  /\ requestRef = s.requestRef
              /\ pendingFrames = s.pendingFrames
              /\ startTimeRef = s.startTimeRef
              /\ pausedTimeRef = s.pausedTimeRef
              /\ lastFrameTimeRef = s.lastFrameTimeRef
              /\ currentRotationRef = s.currentRotationRef
              /\ targetDirectionRef = s.targetDirectionRef
              /\ smoothedDirectionRef = s.smoothedDirectionRef
              /\ nextDirectionChangeTimeRef = s.nextDirectionChangeTimeRef
              /\ frame = s.frame
    /\ LET u == UiEffect(UiConstructed, now, FALSE, TRUE)
       IN  /\ isUiVisible = u.isUiVisible
           /\ uiTimeoutRef = u.uiTimeoutRef
           /\ pendingTimeouts = u.pendingTimeouts
    /\ hist = [ event |-> "start", cause |-> "toggle", elapsed |-> 0,
                dt |-> 0, rerolled |-> FALSE,
                active |-> 0, fixed |-> TRUE, burst |-> 0,
                rerollAt |-> NULL, seededAt |-> now, rerolls |-> 0 ]

NextRotation ==
    \/ \E id \in pendingFrames, d \in TickDelays, rnd \in RandomDraws :
          FrameAfter(d) /\ Tick(id, d, rnd)
    \/ \E d \in RotationEventDelays : EventAfter(d) /\ TogglePlay(d)
    \/ \E d \in RotationEventDelays, v \in RotationSpeedSamples :
          EventAfter(d) /\ SetParam("rotationSpeed", v, d)

SpecRotation == InitRotation /\ [][NextRotation]_vars

-----------------------------------------------------------------------------
(* Properties *)

\* the last handler emitted the frame now shown, from the current props: a frame
\* callback or a run of the effect's pause branch
FrameEmitted == hist.event \in {"tick", "stop"}

\* the clock runs (the engine is Running)
Running == startTimeRef # NULL

\* C1: a parameter change while the engine is Running does not reset the elapsed
\* active time: the elapsed time right after the change is the elapsed time just
\* before it plus the wall-clock time passed since, and the next frame callback
\* computes its frame from that running clock.
C1_ParamChangeKeepsElapsed ==
    [][ /\ (Running /\ isPlaying /\ params' # params) =>
              ElapsedActiveTime(Refs', now') = ElapsedActiveTime(Refs, now) + (now' - now)
        /\ (Running /\ hist'.event = "tick") =>
              hist'.elapsed = ElapsedActiveTime(Refs, now) + (now' - now)
      ]_vars

\* C2: with the parameters held fixed, the elapsed active time is the sum of the
\* wall-clock lengths of the Running intervals, and a resume leaves it at the
\* value it had at the pause, whatever the length of the paused gap.
C2_ElapsedIsActiveTime ==
    /\ [](hist.fixed => ElapsedActiveTime(Refs, now) = hist.active)
    /\ [][ (hist.fixed /\ ~Running /\ Running') =>
              ElapsedActiveTime(Refs', now') = ElapsedActiveTime(Refs, now) ]_vars

C2_Witness ==
    /\ hist.fixed
    /\ hist.event = "start"
    /\ pausedTimeRef > 0
    /\ ElapsedActiveTime(Refs, now) = pausedTimeRef
    /\ now - hist.active >= 2000 + 100

\* C3: a stop cancels the pending frame callback: while playback is stopped no
\* callback is scheduled, no frame callback runs, and the clock and the rotation
\* state stay as the stop left them.
C3_StopCancelsFrame ==
    /\ [](~isPlaying => pendingFrames = {})
    /\ [][ (~isPlaying /\ ~isPlaying') =>
              /\ hist'.event # "tick"
              /\ UNCHANGED << startTimeRef, pausedTimeRef, lastFrameTimeRef,
                              currentRotationRef, targetDirectionRef,
                              smoothedDirectionRef, nextDirectionChangeTimeRef >> ]_vars

C3_Witness ==
    /\ ~isPlaying
    /\ hist.event = "stop"
    /\ hist.cause = "toggle"
    /\ pausedTimeRef > 0
    /\ requestRef # 0
    /\ smoothedDirectionRef # 0

\* C4: the mode of every emitted frame is Parallel when the elapsed time lies in
\* an even block of phaseInterval cycles, [k*P*cycleDuration, (k+1)*P*cycleDuration)
\* with k even, and Global when k is odd; with speed 0.5 and P = 3 it is Parallel
\* at 0 ms and 23999 ms and Global at 24001 ms.
C4_PhaseModeAlternates ==
    FrameEmitted =>
        LET E      == hist.elapsed
            x      == E * params.speed
            block  == params.phaseInterval * 4000 * 100
            blocks == { k \in 0..(E \div 1000 + 1) : k * block <= x /\ x < (k + 1) * block }
        IN  /\ E >= 0
            /\ \E k \in blocks : frame.phaseMode = (IF k % 2 = 0 THEN "parallel" ELSE "global")
            /\ (params.speed = 50 /\ params.phaseInterval = 3 /\ E \in {0, 23999}) =>
                  frame.phaseMode = "parallel"
            /\ (params.speed = 50 /\ params.phaseInterval = 3 /\ E = 24001) =>
                  frame.phaseMode = "global"

C4_Witness ==
    /\ hist.event = "tick"
    /\ params.speed = 50
    /\ params.phaseInterval = 3
    /\ hist.elapsed = 24001
    /\ frame.phaseMode = "global"

\* C5: the frame emitted by the pause branch has the scale, offsetX and phaseMode
\* that the frame callback computes for the same props at the elapsed active
\* time of the pause.
C5_StaticFrameIsTickFrame ==
    hist.event = "stop" =>
        /\ hist.elapsed = ElapsedActiveTime(Refs, now)
        /\ frame.scale = AnimateScale(hist.elapsed, params)
        /\ frame.offsetX = AnimateOffset(hist.elapsed, params)
        /\ frame.phaseMode = AnimateMode(hist.elapsed, params)

C5_Witness ==
    /\ hist.event = "stop"
    /\ hist.burst > 0
    /\ frame.phaseMode = "global"
    /\ minScale(params) < frame.scale
    /\ frame.scale < maxScale(params)
    /\ frame.offsetX < baseOffset(params)

\* C6: the first frame callback after a run of the play branch at time s, itself
\* at time t, uses the frame delta t - s: the delta never spans the time the
\* engine was stopped.
C6_FirstDeltaFromResume ==
    [][ (hist.event = "start" /\ hist'.event = "tick") => hist'.dt = now' - now ]_vars

C6_Witness ==
    /\ hist.event = "tick"
    /\ hist.fixed
    /\ pausedTimeRef > 0
    /\ hist.dt > 0
    /\ hist.dt = hist.elapsed - pausedTimeRef
    /\ now - hist.active >= 2000 + 100

\* C7: while rotationSpeed is 0 no handler changes currentRotationRef or the
\* rendered rotation.
C7_NoRotationAtSpeedZero ==
    [][ (params.rotationSpeed = 0 /\ params'.rotationSpeed = 0) =>
            /\ currentRotationRef' = currentRotationRef
            /\ frame'.rotation = frame.rotation ]_vars

C7_Witness ==
    /\ params.rotationSpeed = 0
    /\ hist.event = "tick"
    /\ hist.dt > 0
    /\ currentRotationRef # 0
    /\ smoothedDirectionRef # 0

\* C8: a run of the effect (a stop, a start, a restart after a parameter change)
\* leaves currentRotationRef, targetDirectionRef and smoothedDirectionRef as they
\* were.
C8_PauseResumeKeepsRotation ==
    [][ hist'.event \in {"start", "stop"} =>
            UNCHANGED << currentRotationRef, targetDirectionRef, smoothedDirectionRef >> ]_vars

C8_Witness ==
    /\ hist.event = "start"
    /\ hist.cause = "toggle"
    /\ pausedTimeRef > 0
    /\ currentRotationRef # 0
    /\ smoothedDirectionRef # 0
    /\ targetDirectionRef = -1

\* C9: on every frame callback with rotationSpeed > 0 the smoothed direction
\* moves by at most 0.02 of its distance to the target direction the callback
\* steers toward (the re-rolled one when the callback re-rolls).
C9_SmoothedDirectionStep ==
    [][ (hist'.event = "tick" /\ params.rotationSpeed > 0) =>
            100 * Abs(smoothedDirectionRef' - smoothedDirectionRef)
                <= 2 * Abs(targetDirectionRef' * 10000 - smoothedDirectionRef) ]_vars

C9_Witness ==
    /\ hist.event = "tick"
    /\ hist.rerolled
    /\ params.rotationSpeed > 0
    /\ targetDirectionRef = -1
    /\ smoothedDirectionRef > 0

C11_OffsetFollowsMode ==
    FrameEmitted =>
        LET exact == (baseOffset(params) \div 50) * frame.scale
            shown == frame.offsetX * (maxScale(params) \div 50)
        IN  /\ frame.phaseMode = "parallel" => frame.offsetX = baseOffset(params)
            /\ frame.phaseMode = "global" =>
                  /\ shown <= exact
                  /\ exact - shown <= 7 * (maxScale(params) \div 50)
                  /\ 0 < frame.offsetX
                  /\ frame.offsetX <= baseOffset(params)
                  /\ frame.scale = maxScale(params) => frame.offsetX = baseOffset(params)

C11_Witness ==
    /\ hist.event = "tick"
    /\ frame.phaseMode = "global"
    /\ frame.scale < maxScale(params)
    /\ frame.offsetX < baseOffset(params)
    /\ params.separation = 560

\* C12: one click on the play/pause button of Controls flips isPlaying exactly
\* once, counting every click handler the click reaches (the button's
\* onTogglePlay and the onClick of the enclosing root element).
C12_ButtonClickFlipsOnce ==
    [][ hist'.event = "click" => isPlaying' = ~isPlaying ]_vars

\* C13: after any sequence of play, pause, tick and parameter-change events at
\* most one frame callback is pending: exactly one, the one requestRef holds,
\* while playback is on, and none while it is off.
C13_OneFramePending ==
    /\ Cardinality(pendingFrames) <= 1
    /\ isPlaying => pendingFrames = {requestRef}
    /\ ~isPlaying => Cardinality(pendingFrames) = 0

C13_Witness ==
    /\ isPlaying
    /\ hist.event = "tick"
    /\ ~hist.fixed
    /\ pausedTimeRef > 0
    /\ requestRef > 1
    /\ pendingFrames = {requestRef}

\* C14: a parameter change while playback is stopped leaves the clock (the
\* accumulated elapsed time, the null start timestamp) and the rotation state as
\* they were and emits the static frame of the new parameters at the same frozen
\* elapsed time; while stopped, the elapsed active time does not vary with the
\* wall clock.
C14_ParamChangeWhileStopped ==
    /\ [][ (~isPlaying /\ params' # params) =>
              /\ startTimeRef = NULL
              /\ UNCHANGED << startTimeRef, pausedTimeRef, lastFrameTimeRef,
                              currentRotationRef, targetDirectionRef,
                              smoothedDirectionRef, nextDirectionChangeTimeRef >>
              /\ frame' = [scale     |-> StaticScale(pausedTimeRef, params'),
                           offsetX   |-> StaticOffset(pausedTimeRef, params'),
                           rotation  |-> frame.rotation,
                           phaseMode |-> StaticMode(pausedTimeRef, params')] ]_vars
    /\ [][ (~isPlaying /\ ~isPlaying') =>
              ElapsedActiveTime(Refs', now') = ElapsedActiveTime(Refs, now) ]_vars

C14_Witness ==
    /\ ~isPlaying
    /\ hist.event = "stop"
    /\ hist.cause = "param"
    /\ hist.burst = 0
    /\ pausedTimeRef = 2000
    /\ currentRotationRef # 0
    /\ params.endSizePct = 100
    /\ frame.scale = maxScale(params)

\* C15: in every emitted frame, in either phase mode, the two mirrored shapes
\* neither touch nor overlap: offsetX - scale * R_OUT > 0 (offsetX in 1/100,
\* scale in 1/10000).
C15_ShapesApart ==
    FrameEmitted => frame.offsetX * 100 - frame.scale * R_OUT > 0

C15_Witness ==
    /\ hist.event = "tick"
    /\ frame.phaseMode = "global"
    /\ params.endSizePct = 10
    /\ frame.scale = minScale(params)
    /\ frame.offsetX * 100 - frame.scale * R_OUT < 10 * 100

\* C16: across any sequence of ticks, pauses, resumes and parameter changes, a
\* direction re-roll comes more than 2000 ms of wall-clock time after the
\* re-roll before it, and more than 1000 ms after the last start that found the
\* scheduled re-roll time already elapsed.
C16_RerollsApart ==
    [][ (hist'.event = "tick" /\ hist'.rerolled) =>
            /\ hist.rerollAt # NULL => now' - hist.rerollAt > 2000
            /\ hist.seededAt # NULL => now' - hist.seededAt > 1000 ]_vars

C16_Witness ==
    /\ hist.event = "tick"
    /\ hist.rerolled
    /\ hist.rerolls >= 2
    /\ hist.seededAt < hist.rerollAt
    /\ pausedTimeRef > 0

\* C17: in every reachable state targetDirection is -1 or +1 and
\* smoothedDirection lies in [-1, 1].
C17_DirectionsInRange ==
    /\ targetDirectionRef \in {-1, 1}
    /\ -10000 <= smoothedDirectionRef
    /\ smoothedDirectionRef <= 10000

C17_Witness ==
    /\ hist.event = "tick"
    /\ hist.rerolled
    /\ params.rotationSpeed > 0
    /\ targetDirectionRef = 1
    /\ smoothedDirectionRef = 10000

\* C19: after any sequence of ticks, with any frame deltas and rotation speeds,
\* the current angle stays strictly between -360 and 360 degrees; the remainder
\* keeps the sign of the accumulated angle, so negative angles occur.
C19_AngleWithinTurn ==
    /\ -360 * 10000 < currentRotationRef
    /\ currentRotationRef < 360 * 10000
    /\ -360 * 10000 < frame.rotation
    /\ frame.rotation < 360 * 10000

C19_Witness ==
    /\ hist.event = "tick"
    /\ hist.dt = 4000
    /\ params.rotationSpeed = 250
    /\ smoothedDirectionRef < -9000
    /\ currentRotationRef < 0
    /\ frame.rotation = currentRotationRef

\* C18: whenever playback is off (the effects of App have run), the controls are
\* visible and no hide timer is pending, and no hide timer armed while playing
\* fires after the pause.
C18_StoppedShowsUi ==
    /\ [](~isPlaying => (isUiVisible /\ pendingTimeouts = {}))
    /\ [][ ~isPlaying => hist'.event # "hide" ]_vars

C18_Witness ==
    /\ ~isPlaying
    /\ isUiVisible
    /\ hist.event = "stop"
    /\ hist.burst > 0
    /\ uiTimeoutRef = 2
    /\ pendingTimeouts = {}

=============================================================================
